---------------------------- MODULE Spec2Model ----------------------------
(***************************************************************************)
(* anchorpy: the program facade (program/core.py) and the account client   *)
(* (program/namespace/account.py).                                         *)
(*                                                                         *)
(* Byte strings are sequences of 0..255.  Text (base64, base58) is a       *)
(* sequence of one-character strings.                                      *)
(***************************************************************************)
EXTENDS Integers, Sequences, FiniteSets, Bags, TLC

(***************************************************************************)
(* Sequence helpers.                                                       *)
(***************************************************************************)
Range(s) == {s[i] : i \in 1..Len(s)}

\* Python's s[:n] for n >= 0
Prefix(s, n) == IF Len(s) <= n THEN s ELSE SubSeq(s, 1, n)

\* Python's s[n:] for n >= 0
Suffix(s, n) == IF Len(s) <= n THEN <<>> ELSE SubSeq(s, n + 1, Len(s))

\* all sequences over S of length 0..n
RECURSIVE SeqsUpTo(_, _)
SeqsUpTo(S, n) ==
    IF n = 0 THEN {<<>>}
    ELSE LET shorter == SeqsUpTo(S, n - 1)
         IN  shorter \cup {Append(s, x) : s \in {t \in shorter : Len(t) = n - 1}, x \in S}

(***************************************************************************)
(* base64 (standard alphabet, "=" padding), as base64.b64encode and        *)
(* base64.b64decode compute it on well-formed text.                        *)
(***************************************************************************)
B64Alphabet ==
    << "A","B","C","D","E","F","G","H","I","J","K","L","M","N","O","P",
       "Q","R","S","T","U","V","W","X","Y","Z","a","b","c","d","e","f",
       "g","h","i","j","k","l","m","n","o","p","q","r","s","t","u","v",
       "w","x","y","z","0","1","2","3","4","5","6","7","8","9","+","/" >>

B64Char(v) == B64Alphabet[v + 1]

B64Value(c) == (CHOOSE i \in 1..64 : B64Alphabet[i] = c) - 1

RECURSIVE b64encode(_)
b64encode(b) ==
    IF Len(b) = 0 THEN <<>>
    ELSE IF Len(b) = 1 THEN
        << B64Char(b[1] \div 4), B64Char((b[1] % 4) * 16), "=", "=" >>
    ELSE IF Len(b) = 2 THEN
        << B64Char(b[1] \div 4),
           B64Char((b[1] % 4) * 16 + b[2] \div 16),
           B64Char((b[2] % 16) * 4), "=" >>
    ELSE
        << B64Char(b[1] \div 4),
           B64Char((b[1] % 4) * 16 + b[2] \div 16),
           B64Char((b[2] % 16) * 4 + b[3] \div 64),
           B64Char(b[3] % 64) >> \o b64encode(Suffix(b, 3))

RECURSIVE b64decode(_)
b64decode(t) ==
    IF Len(t) < 4 THEN <<>>
    ELSE LET c1 == B64Value(t[1])
             c2 == B64Value(t[2])
         IN  IF t[3] = "=" THEN << c1 * 4 + c2 \div 16 >>
             ELSE LET c3 == B64Value(t[3])
                  IN  IF t[4] = "=" THEN
                          << c1 * 4 + c2 \div 16, (c2 % 16) * 16 + c3 \div 4 >>
                      ELSE
                          << c1 * 4 + c2 \div 16,
                             (c2 % 16) * 16 + c3 \div 4,
                             (c3 % 4) * 64 + B64Value(t[4]) >>
                          \o b64decode(Suffix(t, 4))

(***************************************************************************)
(* base58 (Bitcoin alphabet), as base58.b58encode computes it: the bytes   *)
(* are one big-endian number, written in base 58, with one "1" for every   *)
(* leading zero byte.  Numbers are kept as big-endian base-256 digit       *)
(* sequences, since they do not fit a machine integer.                     *)
(***************************************************************************)
B58Alphabet ==
    << "1","2","3","4","5","6","7","8","9","A","B","C","D","E","F","G",
       "H","J","K","L","M","N","P","Q","R","S","T","U","V","W","X","Y",
       "Z","a","b","c","d","e","f","g","h","i","j","k","m","n","o","p",
       "q","r","s","t","u","v","w","x","y","z" >>

B58Value(c) == (CHOOSE i \in 1..58 : B58Alphabet[i] = c) - 1

RECURSIVE LStrip(_, _)
LStrip(s, x) == IF Len(s) > 0 /\ s[1] = x THEN LStrip(Tail(s), x) ELSE s

\* long division of a big-endian base-256 number by 58: [q |-> quotient, r |-> remainder]
RECURSIVE DivMod58(_, _, _)
DivMod58(digits, q, r) ==
    IF Len(digits) = 0 THEN [q |-> LStrip(q, 0), r |-> r]
    ELSE LET cur == r * 256 + digits[1]
         IN  DivMod58(Tail(digits), Append(q, cur \div 58), cur % 58)

RECURSIVE b58encode_int(_)
b58encode_int(acc) ==
    IF Len(acc) = 0 THEN <<>>
    ELSE LET d == DivMod58(acc, <<>>, 0)
         IN  Append(b58encode_int(d.q), B58Alphabet[d.r + 1])

b58encode(v) ==
    LET stripped == LStrip(v, 0)
    IN  [i \in 1..(Len(v) - Len(stripped)) |-> "1"] \o b58encode_int(stripped)

\* big-endian base-256 number * 58 + carry
RECURSIVE MulAdd58(_, _)
MulAdd58(digits, carry) ==
    IF Len(digits) = 0 THEN (IF carry = 0 THEN <<>> ELSE << carry >>)
    ELSE LET n    == Len(digits)
             cur  == digits[n] * 58 + carry
         IN  Append(MulAdd58(SubSeq(digits, 1, n - 1), cur \div 256), cur % 256)

RECURSIVE b58decode_int(_, _)
b58decode_int(t, acc) ==
    IF Len(t) = 0 THEN LStrip(acc, 0)
    ELSE b58decode_int(Tail(t), MulAdd58(acc, B58Value(t[1])))

\* the inverse of b58encode (base58.b58decode)
b58decode(t) ==
    LET stripped == LStrip(t, "1")
    IN  [i \in 1..(Len(t) - Len(stripped)) |-> 0] \o b58decode_int(stripped, <<>>)

(***************************************************************************)
(* Python values.  An Optional is a sequence: <<>> is None, <<x>> is x.    *)
(* A dict is a function; the empty dict is the function of empty domain.   *)
(***************************************************************************)
NoneOpt == <<>>
Some(x) == << x >>
IsNone(o) == Len(o) = 0
Val(o) == o[1]

EmptyDict == [k \in {} |-> 0]

\* d[k] = v
DictSet(d, k, v) == [x \in (DOMAIN d) \cup {k} |-> IF x = k THEN v ELSE d[x]]

(***************************************************************************)
(* The schema (Idl): instructions, account type definitions, errors.       *)
(***************************************************************************)
IxDefs ==
    { [name |-> "initialize", args |-> 0],
      [name |-> "initialize", args |-> 1],
      [name |-> "Initialize", args |-> 0] }

CounterDef == [name |-> "Counter", fields |-> << [name |-> "count", type |-> "u16"] >>]
VaultDef   == [name |-> "Vault",   fields |-> << [name |-> "bump",  type |-> "u8"] >>]
AccountDefs == {CounterDef, VaultDef}

ErrorDefs ==
    { [code |-> 6000, name |-> "Unauthorized", msg |-> Some("You are not authorized")],
      [code |-> 6000, name |-> "Denied",       msg |-> NoneOpt],
      [code |-> 6001, name |-> "Overflow",     msg |-> Some("")],
      [code |-> 6001, name |-> "Overflow",     msg |-> Some("Counter overflowed")] }

\* codes an on-chain failure may carry, declared or not
ErrorCodes == {6000, 6001, 9999}

MaxInstructions == 2
MaxAccounts == 2
MaxErrors == 2

Idls ==
    [ instructions : SeqsUpTo(IxDefs, MaxInstructions),
      accounts     : SeqsUpTo(AccountDefs, MaxAccounts),
      errors       : SeqsUpTo(ErrorDefs, MaxErrors),
      types        : {<<>>} ]

PROGRAM_ID == "programId"

\* the Provider: the transport (connection, with its commitment) and the wallet
TheProvider ==
    [ connection |-> [_commitment |-> "processed"],
      wallet     |-> [public_key |-> "walletPk"] ]

(***************************************************************************)
(* anchorpy.coder: discriminators, account size, the account coder.        *)
(***************************************************************************)
ACCOUNT_DISCRIMINATOR_SIZE == 8

\* sha256("account:" + name)[:8]
account_discriminator(name) ==
    CASE name = "Counter" -> << 255, 176, 4, 245, 188, 253, 124, 25 >>
      [] name = "Vault"   -> << 211, 8, 232, 43, 2, 152, 117, 119 >>
      [] name = "Other"   -> << 6, 211, 182, 219, 212, 141, 253, 200 >>

_type_size(type) == IF type = "u8" THEN 1 ELSE 2

RECURSIVE SumSizes(_)
SumSizes(fields) ==
    IF Len(fields) = 0 THEN 0 ELSE _type_size(fields[1].type) + SumSizes(Tail(fields))

_account_size(i, idl_account) == SumSizes(idl_account.fields)

\* little-endian fixed-width fields, in declaration order
RECURSIVE layout_decode(_, _, _)
layout_decode(fields, bytes, acc) ==
    IF Len(fields) = 0 THEN [ok |-> TRUE, value |-> acc]
    ELSE LET f == fields[1]
             n == _type_size(f.type)
         IN  IF Len(bytes) < n THEN [ok |-> FALSE, error |-> "LayoutDecodeError"]
             ELSE layout_decode(
                      Tail(fields), Suffix(bytes, n),
                      DictSet(acc, f.name,
                              IF n = 1 THEN bytes[1] ELSE bytes[1] + 256 * bytes[2]))

\* the account coder of a schema: the layout of each declared account type, by
\* discriminator
RECURSIVE AccountsCoder(_, _)
AccountsCoder(accounts, acc) ==
    IF Len(accounts) = 0 THEN acc
    ELSE AccountsCoder(Tail(accounts),
                       DictSet(acc, account_discriminator(accounts[1].name), accounts[1]))

Coder(i) == [accounts |-> AccountsCoder(i.accounts, EmptyDict)]

\* coder.accounts.decode(data): called with the bytes alone, so the account type
\* is the one the bytes' own discriminator names
accounts_decode(coder, data) ==
    IF Len(data) < ACCOUNT_DISCRIMINATOR_SIZE THEN
        [ok |-> FALSE, error |-> "LayoutDecodeError"]
    ELSE IF Prefix(data, ACCOUNT_DISCRIMINATOR_SIZE) \notin DOMAIN coder.accounts THEN
        [ok |-> FALSE, error |-> "AccountInvalidDiscriminator"]
    ELSE layout_decode(coder.accounts[Prefix(data, ACCOUNT_DISCRIMINATOR_SIZE)].fields,
                       Suffix(data, ACCOUNT_DISCRIMINATOR_SIZE), EmptyDict)

(***************************************************************************)
(* program/core.py: the error table and the namespace builder.             *)
(***************************************************************************)
\* faulty variant: e.msg if e.msg is not None else e.name
ErrorDisplayNotNone(e) == IF ~IsNone(e.msg) THEN Val(e.msg) ELSE e.name

\* e.msg if e.msg else e.name
ErrorDisplay(e) == IF ~IsNone(e.msg) /\ Val(e.msg) # "" THEN Val(e.msg) ELSE e.name

RECURSIVE ParseErrorsLoop(_, _)
ParseErrorsLoop(errs, errors) ==
    IF Len(errs) = 0 THEN errors
    ELSE ParseErrorsLoop(Tail(errs), DictSet(errors, errs[1].code, ErrorDisplay(errs[1])))

_parse_idl_errors(i) == ParseErrorsLoop(i.errors, EmptyDict)

\* the handles; id is the identity of the InstructionFn object (one per iteration)
InstructionFn(idl_ix, program_id, id) ==
    [id |-> id, idl_ix |-> idl_ix, program_id |-> program_id]

build_transaction_fn(idl_ix, ix_fn) == [idl_ix |-> idl_ix, ix_fn |-> ix_fn]

build_rpc_item(idl_ix, tx_fn, idl_errors, provider) ==
    [idl_ix |-> idl_ix, tx_fn |-> tx_fn, idl_errors |-> idl_errors, provider |-> provider]

build_simulate_item(idl_ix, tx_fn, idl_errors, provider, coder, program_id, i) ==
    [idl_ix |-> idl_ix, tx_fn |-> tx_fn, idl_errors |-> idl_errors,
     provider |-> provider, program_id |-> program_id]

\* the key a handle is registered under
RegisteredName(idl_ix) == idl_ix.name

\* faulty variant: the instruction namespace keeps the first handle registered under a name
NamespaceStepKeepFirst(ns, idl_ix, id, idl_errors, coder, program_id, provider, i) ==
    LET ix_item  == InstructionFn(idl_ix, program_id, id)
        tx_item  == build_transaction_fn(idl_ix, ix_item)
        rpc_item == build_rpc_item(idl_ix, tx_item, idl_errors, provider)
        simulate_item ==
            build_simulate_item(idl_ix, tx_item, idl_errors, provider, coder, program_id, i)
        name == RegisteredName(idl_ix)
    IN  [ instruction |-> IF name \in DOMAIN ns.instruction THEN ns.instruction
                          ELSE DictSet(ns.instruction, name, ix_item),
          transaction |-> DictSet(ns.transaction, name, tx_item),
          rpc         |-> DictSet(ns.rpc, name, rpc_item),
          simulate    |-> DictSet(ns.simulate, name, simulate_item) ]

\* one iteration of the loop over idl.instructions
NamespaceStep(ns, idl_ix, id, idl_errors, coder, program_id, provider, i) ==
    LET ix_item  == InstructionFn(idl_ix, program_id, id)
        tx_item  == build_transaction_fn(idl_ix, ix_item)
        rpc_item == build_rpc_item(idl_ix, tx_item, idl_errors, provider)
        simulate_item ==
            build_simulate_item(idl_ix, tx_item, idl_errors, provider, coder, program_id, i)
        name == RegisteredName(idl_ix)
    IN  [ instruction |-> DictSet(ns.instruction, name, ix_item),
          transaction |-> DictSet(ns.transaction, name, tx_item),
          rpc         |-> DictSet(ns.rpc, name, rpc_item),
          simulate    |-> DictSet(ns.simulate, name, simulate_item) ]

RECURSIVE NamespaceLoop(_, _, _, _, _, _, _)
NamespaceLoop(ns, k, idl_errors, coder, program_id, provider, i) ==
    IF k > Len(i.instructions) THEN ns
    ELSE NamespaceLoop(
             NamespaceStep(ns, i.instructions[k], k, idl_errors, coder, program_id,
                           provider, i),
             k + 1, idl_errors, coder, program_id, provider, i)

(***************************************************************************)
(* program/namespace/account.py: the account client and its namespace.     *)
(***************************************************************************)
AccountClient(i, idl_account, coder, program_id, provider) ==
    [ _idl_account |-> idl_account,
      _program_id  |-> program_id,
      _provider    |-> provider,
      _coder       |-> coder,
      _size        |-> ACCOUNT_DISCRIMINATOR_SIZE + _account_size(i, idl_account) ]

RECURSIVE BuildAccountLoop(_, _, _, _, _, _)
BuildAccountLoop(accounts, accounts_fns, i, coder, program_id, provider) ==
    IF Len(accounts) = 0 THEN accounts_fns
    ELSE BuildAccountLoop(
             Tail(accounts),
             DictSet(accounts_fns, accounts[1].name,
                     AccountClient(i, accounts[1], coder, program_id, provider)),
             i, coder, program_id, provider)

build_account(i, coder, program_id, provider) ==
    BuildAccountLoop(i.accounts, EmptyDict, i, coder, program_id, provider)

build_types(i) == EmptyDict

_build_namespace(i, coder, program_id, provider) ==
    LET idl_errors == _parse_idl_errors(i)
        ns == NamespaceLoop(
                  [instruction |-> EmptyDict, transaction |-> EmptyDict,
                   rpc |-> EmptyDict, simulate |-> EmptyDict],
                  1, idl_errors, coder, program_id, provider, i)
    IN  [ rpc         |-> ns.rpc,
          instruction |-> ns.instruction,
          transaction |-> ns.transaction,
          account     |-> IF Len(i.accounts) > 0
                          THEN build_account(i, coder, program_id, provider)
                          ELSE EmptyDict,
          simulate    |-> ns.simulate,
          types       |-> build_types(i) ]

\* Program.__init__
ProgramInit(i, program_id, provider) ==
    LET coder == Coder(i)
        ns    == _build_namespace(i, coder, program_id, provider)
    IN  [ constructed |-> TRUE,
          idl         |-> i,
          program_id  |-> program_id,
          provider    |-> provider,
          coder       |-> coder,
          rpc         |-> ns.rpc,
          instruction |-> ns.instruction,
          transaction |-> ns.transaction,
          account     |-> ns.account,
          simulate    |-> ns.simulate,
          type        |-> ns.types ]

NotConstructed == [constructed |-> FALSE]


(***************************************************************************)
(* AccountClient.fetch, create_instruction and all.  Each suspends once,   *)
(* at its transport call: the part before the await builds the request,    *)
(* the part after it works on the response.  The part after the await      *)
(* yields the outcome (returned value or raised error) together with what  *)
(* it did on the way: the texts it base64-decoded, the byte strings whose  *)
(* discriminator it checked, the byte strings it passed to the coder.      *)
(***************************************************************************)
Return(v) == [ok |-> TRUE, value |-> v]
Raise(e)  == [ok |-> FALSE, error |-> e]

fetch_request(self, address) ==
    [method |-> "get_account_info", pubkey |-> address, encoding |-> "base64"]

\* faulty variant: an account with empty data counts as missing
ValueMissingOrEmpty(value) == IsNone(value) \/ Len(Val(value).data[1]) = 0

\* not account_info["result"]["value"]
ValueMissing(value) == IsNone(value)

\* faulty variant: the discriminator check is left out
DiscriminatorUnchecked(discriminator, data) == FALSE

\* faulty variant: the comparison is made only on data long enough to hold a discriminator
DiscriminatorMismatchIfLong(discriminator, data) ==
    /\ Len(data) >= ACCOUNT_DISCRIMINATOR_SIZE
    /\ discriminator # Prefix(data, ACCOUNT_DISCRIMINATOR_SIZE)

\* discriminator != data[:ACCOUNT_DISCRIMINATOR_SIZE]
DiscriminatorMismatch(discriminator, data) ==
    discriminator # Prefix(data, ACCOUNT_DISCRIMINATOR_SIZE)

fetch_resume(self, address, account_info) ==
    IF ValueMissing(account_info.result.value) THEN
        [outcome |-> Raise("AccountDoesNotExistError"),
         b64decoded |-> <<>>, checked |-> <<>>, decoded |-> <<>>]
    ELSE
        LET text == Val(account_info.result.value).data[1]
            data == b64decode(text)
            discriminator == account_discriminator(self._idl_account.name)
        IN  IF DiscriminatorMismatch(discriminator, data) THEN
                [outcome |-> Raise("AccountInvalidDiscriminator"),
                 b64decoded |-> << text >>, checked |-> << data >>, decoded |-> <<>>]
            ELSE
                [outcome |-> accounts_decode(self._coder, data),
                 b64decoded |-> << text >>, checked |-> << data >>,
                 decoded |-> << data >>]

\* faulty variant: the override is ignored
create_space_static(self, size_override) == self._size

\* space = size_override if size_override else self._size
create_space(self, size_override) ==
    IF size_override # 0 THEN size_override ELSE self._size

create_request(self, size_override) ==
    [method |-> "get_minimum_balance_for_rent_exemption",
     usize |-> create_space(self, size_override)]

\* solana.system_program.create_account(CreateAccountParams(...))
create_account(params) ==
    [ instruction |-> "system_program.create_account",
      from_pubkey |-> params.from_pubkey,
      new_account_pubkey |-> params.new_account_pubkey,
      space |-> params.space,
      lamports |-> params.lamports,
      owner |-> params.program_id ]

create_resume(self, signer, space, mbre_resp) ==
    [outcome |-> Return(create_account(
                     [ from_pubkey |-> self._provider.wallet.public_key,
                       new_account_pubkey |-> signer.public_key,
                       space |-> space,
                       lamports |-> mbre_resp.result,
                       program_id |-> self._program_id ])),
     b64decoded |-> <<>>, checked |-> <<>>, decoded |-> <<>>]

MemcmpOpts(offset, bytes) == [offset |-> offset, bytes |-> bytes]

\* faulty variant: the discriminator filter is appended, not prepended
FullMemcmpOptsAppended(base_memcmp_opt, extra_memcmpm_opts) ==
    Append(extra_memcmpm_opts, base_memcmp_opt)

\* [base_memcmp_opt] + extra_memcmpm_opts
FullMemcmpOpts(base_memcmp_opt, extra_memcmpm_opts) ==
    << base_memcmp_opt >> \o extra_memcmpm_opts

\* discriminator if buffer is None else discriminator + buffer
ToEncode(discriminator, buffer) ==
    IF IsNone(buffer) THEN discriminator ELSE discriminator \o Val(buffer)

\* the caller's memcmp_opts list object, as the call leaves it
MemcmpOptsAfter(memcmp_opts, base_memcmp_opt) == memcmp_opts

all_request(self, buffer, memcmp_opts, data_size) ==
    LET discriminator == account_discriminator(self._idl_account.name)
        to_encode == ToEncode(discriminator, buffer)
        bytes_arg == b58encode(to_encode)
        base_memcmp_opt == MemcmpOpts(0, bytes_arg)
        extra_memcmpm_opts == IF IsNone(memcmp_opts) THEN <<>> ELSE Val(memcmp_opts)
        full_memcmp_opts == FullMemcmpOpts(base_memcmp_opt, extra_memcmpm_opts)
    IN  [ request |->
              [ method |-> "get_program_accounts",
                pubkey |-> self._program_id,
                encoding |-> "base64",
                commitment |-> self._provider.connection._commitment,
                data_size |-> data_size,
                memcmp_opts |-> full_memcmp_opts ],
          memcmp_opts_after |-> MemcmpOptsAfter(memcmp_opts, base_memcmp_opt) ]

PublicKey(s) == [public_key |-> s]

ProgramAccount(public_key, account) == [public_key |-> public_key, account |-> account]

\* faulty variant: the loop stops at the failing record and returns what it has
OnDecodeErrorReturnPartial(rest, self, all_accounts, b64decoded, decoded, error) ==
    [outcome |-> Return(all_accounts),
     b64decoded |-> b64decoded, checked |-> <<>>, decoded |-> decoded]

\* a record of the batch whose decoding fails
OnDecodeError(rest, self, all_accounts, b64decoded, decoded, error) ==
    [outcome |-> Raise(error),
     b64decoded |-> b64decoded, checked |-> <<>>, decoded |-> decoded]

\* for r in resp["result"]: ...; return all_accounts
RECURSIVE AllLoop(_, _, _, _, _)
AllLoop(rest, self, all_accounts, b64decoded, decoded) ==
    IF Len(rest) = 0 THEN
        [outcome |-> Return(all_accounts),
         b64decoded |-> b64decoded, checked |-> <<>>, decoded |-> decoded]
    ELSE
        LET r == rest[1]
            text == r.account.data[1]
            account_data == b64decode(text)
            account == accounts_decode(self._coder, account_data)
        IN  IF ~account.ok THEN
                OnDecodeError(Tail(rest), self, all_accounts, Append(b64decoded, text),
                              Append(decoded, account_data), account.error)
            ELSE
                AllLoop(Tail(rest), self,
                        Append(all_accounts,
                               ProgramAccount(PublicKey(r.pubkey), account.value)),
                        Append(b64decoded, text), Append(decoded, account_data))

all_resume(self, resp) == AllLoop(resp.result, self, <<>>, <<>>, <<>>)

(***************************************************************************)
(* The state: the schema handed to Program.__init__, the program facade,   *)
(* the calls in flight (suspended at their transport call) and the call    *)
(* that completed last.                                                    *)
(***************************************************************************)
VARIABLES schema, program, pending, last

vars == << schema, program, pending, last >>

NoCall == [op |-> "none"]

Completed(call, response, r) ==
    [ op |-> call.op, client |-> call.client, args |-> call.args,
      requests |-> call.requests, args_after |-> call.args_after,
      response |-> response,
      outcome |-> r.outcome, b64decoded |-> r.b64decoded,
      checked |-> r.checked, decoded |-> r.decoded ]

InFlight == BagCardinality(pending)

\* await self._provider.connection.get_account_info(address, encoding="base64")
FetchCall(name, address, limit) ==
    /\ program.constructed
    /\ name \in DOMAIN program.account
    /\ InFlight < limit
    /\ pending' = pending (+) SetToBag({
           [ op |-> "fetch", client |-> name, args |-> [address |-> address],
             requests |-> << fetch_request(program.account[name], address) >>,
             args_after |-> [address |-> address] ] })
    /\ UNCHANGED << schema, program, last >>

FetchResume(call, account_info) ==
    /\ BagIn(call, pending)
    /\ call.op = "fetch"
    /\ pending' = pending (-) SetToBag({call})
    /\ last' = Completed(call, account_info,
                         fetch_resume(program.account[call.client], call.args.address,
                                      account_info))
    /\ UNCHANGED << schema, program >>

\* await self._provider.connection.get_minimum_balance_for_rent_exemption(space)
CreateCall(name, signer, size_override, limit) ==
    /\ program.constructed
    /\ name \in DOMAIN program.account
    /\ InFlight < limit
    /\ pending' = pending (+) SetToBag({
           [ op |-> "create_instruction", client |-> name,
             args |-> [signer |-> signer, size_override |-> size_override],
             requests |-> << create_request(program.account[name], size_override) >>,
             args_after |-> [signer |-> signer, size_override |-> size_override] ] })
    /\ UNCHANGED << schema, program, last >>

\* faulty variant: the space used is kept on the client (self._size = space)
CreateResumeStoringSize(call, mbre_resp) ==
    /\ BagIn(call, pending)
    /\ call.op = "create_instruction"
    /\ pending' = pending (-) SetToBag({call})
    /\ last' = Completed(call, mbre_resp,
                         create_resume(program.account[call.client], call.args.signer,
                                       call.requests[1].usize, mbre_resp))
    /\ program' = [program EXCEPT !.account[call.client]._size = call.requests[1].usize]
    /\ UNCHANGED schema

CreateResume(call, mbre_resp) ==
    /\ BagIn(call, pending)
    /\ call.op = "create_instruction"
    /\ pending' = pending (-) SetToBag({call})
    /\ last' = Completed(call, mbre_resp,
                         create_resume(program.account[call.client], call.args.signer,
                                       call.requests[1].usize, mbre_resp))
    /\ UNCHANGED << schema, program >>

\* await self._provider.connection.get_program_accounts(...)
AllCall(name, buffer, memcmp_opts, data_size, limit) ==
    /\ program.constructed
    /\ name \in DOMAIN program.account
    /\ InFlight < limit
    /\ LET q == all_request(program.account[name], buffer, memcmp_opts, data_size)
       IN  pending' = pending (+) SetToBag({
               [ op |-> "all", client |-> name,
                 args |-> [buffer |-> buffer, memcmp_opts |-> memcmp_opts,
                           data_size |-> data_size],
                 requests |-> << q.request >>,
                 args_after |-> [buffer |-> buffer,
                                 memcmp_opts |-> q.memcmp_opts_after,
                                 data_size |-> data_size] ] })
    /\ UNCHANGED << schema, program, last >>

AllResume(call, resp) ==
    /\ BagIn(call, pending)
    /\ call.op = "all"
    /\ pending' = pending (-) SetToBag({call})
    /\ last' = Completed(call, resp, all_resume(program.account[call.client], resp))
    /\ UNCHANGED << schema, program >>

\* Program(idl, program_id, provider)
Construct ==
    /\ ~program.constructed
    /\ program' = ProgramInit(schema, PROGRAM_ID, TheProvider)
    /\ UNCHANGED << schema, pending, last >>

(***************************************************************************)
(* Inputs: what callers pass and what the transport answers.               *)
(***************************************************************************)
AccountNames == {"Counter", "Vault"}

Addresses == {"addr1"}

Signers == {[public_key |-> "newAccountPk"]}

SizeOverrides == {0, 16}

RentResponses == {[result |-> 890880], [result |-> 1002240]}

\* raw account bytes
CounterBytes   == account_discriminator("Counter") \o << 42, 1 >>
CounterCut     == account_discriminator("Counter") \o << 42 >>
VaultBytes     == account_discriminator("Vault") \o << 7 >>
OtherBytes     == account_discriminator("Other") \o << 42, 1 >>
ShortBytes     == Prefix(account_discriminator("Counter"), 3)
EmptyBytes     == <<>>

\* the transport's account record: the data, base64-encoded
AccountValue(bytes) == [data |-> << b64encode(bytes), "base64" >>, executable |-> FALSE]

AccountInfo(value) == [result |-> [value |-> value]]

AccountInfos(datas) ==
    {AccountInfo(NoneOpt)} \cup {AccountInfo(Some(AccountValue(b))) : b \in datas}

FetchDatas == {CounterBytes, CounterCut, VaultBytes, OtherBytes, ShortBytes, EmptyBytes}

BatchRecord(pubkey, bytes) == [pubkey |-> pubkey, account |-> AccountValue(bytes)]

BatchRecords ==
    { BatchRecord("pkCounter", CounterBytes), BatchRecord("pkVault", VaultBytes),
      BatchRecord("pkCut", CounterCut), BatchRecord("pkShort", ShortBytes) }

MaxBatch == 2

ProgramAccounts(records) == {[result |-> s] : s \in SeqsUpTo(records, MaxBatch)}

Filter1 == MemcmpOpts(8, << "2" >>)
Filter2 == MemcmpOpts(10, << "3", "Q" >>)

AllArgs ==
    { [buffer |-> NoneOpt,        memcmp_opts |-> NoneOpt,  data_size |-> NoneOpt],
      [buffer |-> Some(<<>>),     memcmp_opts |-> Some(<<>>), data_size |-> Some(10)],
      [buffer |-> Some(<< 7 >>),  memcmp_opts |-> Some(<< Filter1, Filter2 >>),
       data_size |-> NoneOpt],
      [buffer |-> Some(<< 0, 1 >>), memcmp_opts |-> Some(<< Filter2, Filter1 >>),
       data_size |-> Some(10)] }

\* schemas of the programs whose account clients are called
ClientIdls ==
    { [ instructions |-> << [name |-> "initialize", args |-> 0] >>,
        accounts |-> accts,
        errors |-> << [code |-> 6000, name |-> "Unauthorized", msg |-> NoneOpt] >>,
        types |-> <<>> ] : accts \in {<< CounterDef, VaultDef >>, << CounterDef >>} }

(***************************************************************************)
(* Spec: the account clients of a constructed program, one call at a time. *)
(***************************************************************************)
Init ==
    /\ schema \in ClientIdls
    /\ program = ProgramInit(schema, PROGRAM_ID, TheProvider)
    /\ pending = EmptyBag
    /\ last = NoCall

Next ==
    \/ \E n \in AccountNames, a \in Addresses : FetchCall(n, a, 1)
    \/ \E c \in DOMAIN pending, i \in AccountInfos(FetchDatas) : FetchResume(c, i)
    \/ \E n \in AccountNames, s \in Signers, o \in SizeOverrides : CreateCall(n, s, o, 1)
    \/ \E c \in DOMAIN pending, m \in RentResponses : CreateResume(c, m)
    \/ \E n \in AccountNames, x \in AllArgs :
           AllCall(n, x.buffer, x.memcmp_opts, x.data_size, 1)
    \/ \E c \in DOMAIN pending, r \in ProgramAccounts(BatchRecords) : AllResume(c, r)

Spec == Init /\ [][Next]_vars

(***************************************************************************)
(* SpecConcurrent: up to MaxCalls calls in flight, resumed in any order.   *)
(***************************************************************************)
MaxCalls == 2

ConcurrentDatas == {CounterBytes, VaultBytes}

ConcurrentRecords ==
    {BatchRecord("pkCounter", CounterBytes), BatchRecord("pkCut", CounterCut)}

ConcurrentArgs == {x \in AllArgs : IsNone(x.data_size)}

NextConcurrent ==
    \/ \E n \in AccountNames, a \in Addresses : FetchCall(n, a, MaxCalls)
    \/ \E c \in DOMAIN pending, i \in AccountInfos(ConcurrentDatas) : FetchResume(c, i)
    \/ \E n \in AccountNames, s \in Signers, o \in SizeOverrides :
           CreateCall(n, s, o, MaxCalls)
    \/ \E c \in DOMAIN pending, m \in RentResponses : CreateResume(c, m)
    \/ \E n \in AccountNames, x \in ConcurrentArgs :
           AllCall(n, x.buffer, x.memcmp_opts, x.data_size, MaxCalls)
    \/ \E c \in DOMAIN pending, r \in ProgramAccounts(ConcurrentRecords) : AllResume(c, r)

SpecConcurrent == Init /\ [][NextConcurrent]_vars

(***************************************************************************)
(* SpecBuild: Program.__init__ over every schema of Idls.                  *)
(***************************************************************************)
InitBuild ==
    /\ schema \in Idls
    /\ program = NotConstructed
    /\ pending = EmptyBag
    /\ last = NoCall

NextBuild == Construct

SpecBuild == InitBuild /\ [][NextBuild]_vars

(***************************************************************************)
(* Properties.  The raw bytes behind a transport record are recovered from *)
(* the base64 text by the encoder (the transport's side), not by the       *)
(* client's decoder.                                                       *)
(***************************************************************************)
RawOf(text) == CHOOSE b \in FetchDatas : b64encode(b) = text

Self == program.account[last.client]

OwnDiscriminator == account_discriminator(Self._idl_account.name)

FetchedValue == last.response.result.value

FetchedRaw == RawOf(Val(FetchedValue).data[1])

FetchedData == last.op = "fetch" /\ ~IsNone(FetchedValue)

\* C1: fetch decodes only after the discriminator check has passed: on data of
\* at least 8 bytes whose first 8 bytes are not the discriminator of the client's
\* account type it raises AccountInvalidDiscriminator and the coder's decode is
\* not invoked; whatever it passes to the coder is the data it checked, and
\* carries the client's discriminator.
C1_CheckBeforeDecode ==
    FetchedData =>
        /\ (Len(FetchedRaw) >= 8 /\ Prefix(FetchedRaw, 8) # OwnDiscriminator)
               => /\ last.outcome = Raise("AccountInvalidDiscriminator")
                  /\ last.decoded = <<>>
        /\ last.decoded # <<>>
               => /\ last.decoded = << FetchedRaw >>
                  /\ last.checked = << FetchedRaw >>
                  /\ Prefix(FetchedRaw, 8) = OwnDiscriminator

C1_Witness ==
    /\ FetchedData
    /\ last.client = "Counter"
    /\ FetchedRaw = VaultBytes
    /\ last.outcome = Raise("AccountInvalidDiscriminator")

\* C2 (as claimed): fetch on existing data shorter than 8 bytes raises a
\* decode-level error, not AccountInvalidDiscriminator.
C2_ShortDataDecodeError ==
    (FetchedData /\ Len(FetchedRaw) < 8) =>
        /\ ~last.outcome.ok
        /\ last.outcome.error # "AccountInvalidDiscriminator"

\* C2 (amended): fetch on existing data shorter than 8 bytes (empty included)
\* raises AccountInvalidDiscriminator, and the coder is not invoked on it.
C2_ShortDataInvalidDiscriminator ==
    (FetchedData /\ Len(FetchedRaw) < 8) =>
        /\ last.outcome = Raise("AccountInvalidDiscriminator")
        /\ last.decoded = <<>>

C2_Witness ==
    /\ FetchedData
    /\ FetchedRaw = ShortBytes
    /\ ~last.outcome.ok

BatchRaw(i) == RawOf(last.response.result[i].account.data[1])

\* C3: a decoded account is produced only after a discriminator match: every
\* value fetch returns and every pair all returns was decoded from bytes whose
\* first 8 bytes are the discriminator of the client's account type.
C3_DecodedOnlyAfterMatch ==
    /\ (FetchedData /\ last.outcome.ok) => Prefix(FetchedRaw, 8) = OwnDiscriminator
    /\ (last.op = "all" /\ last.outcome.ok) =>
           \A i \in 1..Len(last.outcome.value) : Prefix(BatchRaw(i), 8) = OwnDiscriminator

\* C4: fetch raises AccountDoesNotExistError exactly when the transport reports
\* no value, and then nothing is base64-decoded, discriminator-checked or passed
\* to the coder.
C4_DoesNotExist ==
    last.op = "fetch" =>
        /\ IsNone(FetchedValue) =>
               /\ last.outcome = Raise("AccountDoesNotExistError")
               /\ last.b64decoded = <<>>
               /\ last.checked = <<>>
               /\ last.decoded = <<>>
        /\ ~IsNone(FetchedValue) => last.outcome # Raise("AccountDoesNotExistError")

C4_Witness ==
    /\ last.op = "fetch"
    /\ IsNone(FetchedValue)
    /\ ~last.outcome.ok

OptOrEmpty(o) == IF IsNone(o) THEN <<>> ELSE Val(o)

AllRequestAsClaimed(c) ==
    /\ Len(c.requests) = 1
    /\ c.requests[1].method = "get_program_accounts"
    /\ LET filters == c.requests[1].memcmp_opts
       IN  /\ Len(filters) = 1 + Len(OptOrEmpty(c.args.memcmp_opts))
           /\ filters[1].offset = 0
           /\ b58decode(filters[1].bytes) =
                  account_discriminator(program.account[c.client]._idl_account.name)
                      \o OptOrEmpty(c.args.buffer)
           /\ Suffix(filters, 1) = OptOrEmpty(c.args.memcmp_opts)
    /\ c.args_after.memcmp_opts = c.args.memcmp_opts

\* C5: all issues exactly one get_program_accounts call; its filter list starts
\* with a filter at offset 0 over discriminator || buffer (the bare discriminator
\* when the buffer is omitted or empty), followed by the caller's filters in
\* their order; the caller's list is left as it was.
C5_AllFilter ==
    /\ \A c \in DOMAIN pending : c.op = "all" => AllRequestAsClaimed(c)
    /\ last.op = "all" => AllRequestAsClaimed(last)

C5_Witness ==
    /\ last.op = "all"
    /\ last.args.buffer = Some(<< 7 >>)
    /\ last.args.memcmp_opts = Some(<< Filter1, Filter2 >>)
    /\ Len(last.requests[1].memcmp_opts) = 3

BatchDecoded(i) == accounts_decode(Self._coder, BatchRaw(i))

BatchFailures == {i \in 1..Len(last.response.result) : ~BatchDecoded(i).ok}

FirstFailure == CHOOSE i \in BatchFailures : \A j \in BatchFailures : i <= j

\* C6: all does not swallow a decode failure: if a record of the batch fails to
\* decode, the call raises the error of the first such record and returns no
\* list; otherwise it returns one pair per record, in the transport's order.
C6_AllFailsWhole ==
    last.op = "all" =>
        IF BatchFailures # {} THEN
            last.outcome = Raise(BatchDecoded(FirstFailure).error)
        ELSE
            /\ last.outcome.ok
            /\ Len(last.outcome.value) = Len(last.response.result)
            /\ \A i \in 1..Len(last.response.result) :
                   /\ last.outcome.value[i].public_key =
                          PublicKey(last.response.result[i].pubkey)
                   /\ last.outcome.value[i].account = BatchDecoded(i).value

C6_Witness ==
    /\ last.op = "all"
    /\ Len(last.response.result) = 2
    /\ BatchFailures = {2}
    /\ ~last.outcome.ok

StaticSize(name) == 8 + SumSizes(program.account[name]._idl_account.fields)

ClaimedSpace(c) ==
    IF c.args.size_override # 0 THEN c.args.size_override ELSE StaticSize(c.client)

\* C7: create_instruction uses size_override when nonzero and the static size
\* (8 + layout size) otherwise, asks the transport once for the rent-exempt
\* minimum of that space and nothing else, and returns a create-account
\* instruction with that space, that balance, the wallet as payer, the signer's
\* address and the program as owner; the client's stored size stays the same.
C7_CreateInstruction ==
    /\ \A n \in DOMAIN program.account : program.account[n]._size = StaticSize(n)
    /\ last.op = "create_instruction" =>
           /\ last.requests =
                  << [method |-> "get_minimum_balance_for_rent_exemption",
                      usize |-> ClaimedSpace(last)] >>
           /\ last.outcome.ok
           /\ last.outcome.value.space = ClaimedSpace(last)
           /\ last.outcome.value.lamports = last.response.result
           /\ last.outcome.value.from_pubkey = TheProvider.wallet.public_key
           /\ last.outcome.value.new_account_pubkey = last.args.signer.public_key
           /\ last.outcome.value.owner = PROGRAM_ID

C7_Witness ==
    /\ last.op = "create_instruction"
    /\ last.args.size_override = 16
    /\ last.outcome.ok
    /\ last.outcome.value.space = 16

InstructionNames == {schema.instructions[i].name : i \in 1..Len(schema.instructions)}

DeclaredAccountNames == {schema.accounts[i].name : i \in 1..Len(schema.accounts)}

\* C8: after construction the instruction, transaction, rpc and simulate
\* namespaces all have the declared instruction names as keys, the account
\* namespace has the declared account type names, and under every name the
\* transaction, rpc and simulate handles are built from the instruction-builder
\* registered under that name.
C8_AlignedNamespaces ==
    program.constructed =>
        /\ DOMAIN program.instruction = InstructionNames
        /\ DOMAIN program.transaction = InstructionNames
        /\ DOMAIN program.rpc = InstructionNames
        /\ DOMAIN program.simulate = InstructionNames
        /\ DOMAIN program.account = DeclaredAccountNames
        /\ \A n \in InstructionNames :
               /\ program.transaction[n].ix_fn = program.instruction[n]
               /\ program.rpc[n].tx_fn = program.transaction[n]
               /\ program.rpc[n].tx_fn.ix_fn = program.instruction[n]
               /\ program.simulate[n].tx_fn = program.transaction[n]
               /\ program.simulate[n].tx_fn.ix_fn = program.instruction[n]

C8_Witness ==
    /\ program.constructed
    /\ Len(schema.instructions) = 2
    /\ schema.instructions[1].name = schema.instructions[2].name
    /\ schema.instructions[1] # schema.instructions[2]
    /\ Len(schema.accounts) = 0
    /\ program.instruction["initialize"].idl_ix = schema.instructions[2]

DeclaredCodes == {schema.errors[i].code : i \in 1..Len(schema.errors)}

\* the declaration of code c that the table reflects: the last one
Declaration(c) ==
    schema.errors[CHOOSE i \in 1..Len(schema.errors) :
                      /\ schema.errors[i].code = c
                      /\ \A j \in (i + 1)..Len(schema.errors) : schema.errors[j].code # c]

TableAsClaimed(t) ==
    /\ DOMAIN t = DeclaredCodes
    /\ \A c \in ErrorCodes \ DeclaredCodes : c \notin DOMAIN t
    /\ \A c \in DeclaredCodes :
           LET e == Declaration(c)
           IN  t[c] = IF e.msg = NoneOpt \/ e.msg = Some("") THEN e.name ELSE e.msg[1]

\* C9: the error table the handles carry maps every declared code to its
\* message when a non-empty one is supplied and to the bare name otherwise, and
\* has no entry for any other code.
C9_ErrorTable ==
    program.constructed =>
        \A n \in DOMAIN program.rpc :
            /\ TableAsClaimed(program.rpc[n].idl_errors)
            /\ TableAsClaimed(program.simulate[n].idl_errors)

C9_Witness ==
    /\ program.constructed
    /\ DOMAIN program.rpc # {}
    /\ Len(schema.errors) = 2
    /\ schema.errors[1] = [code |-> 6001, name |-> "Overflow", msg |-> Some("")]
    /\ schema.errors[2].code = 6000
    /\ \A n \in DOMAIN program.rpc : program.rpc[n].idl_errors[6001] = "Overflow"

\* what a completed call must have asked and answered, given its own arguments
\* and its own transport response
Replayed(c) ==
    LET self == program.account[c.client]
    IN  CASE c.op = "fetch" ->
                 /\ c.requests = << fetch_request(self, c.args.address) >>
                 /\ c.outcome = fetch_resume(self, c.args.address, c.response).outcome
          [] c.op = "create_instruction" ->
                 /\ c.requests = << create_request(self, c.args.size_override) >>
                 /\ c.outcome =
                        create_resume(self, c.args.signer,
                                      create_space(self, c.args.size_override),
                                      c.response).outcome
          [] c.op = "all" ->
                 /\ c.requests =
                        << all_request(self, c.args.buffer, c.args.memcmp_opts,
                                       c.args.data_size).request >>
                 /\ c.outcome = all_resume(self, c.response).outcome
          [] OTHER -> TRUE

\* C10: no call changes the schema, the coder, the program address, a client's
\* size or a namespace, whatever else is in flight, and a completed call's
\* request and result are those its own arguments and response determine.
C10_NoSharedMutableState ==
    /\ [][program' = program /\ schema' = schema]_vars
    /\ [](Replayed(last))

C10_Witness ==
    /\ InFlight = 2
    /\ \E c \in DOMAIN pending : c.op = "create_instruction" /\ c.args.size_override = 16
    /\ \E c \in DOMAIN pending : c.op = "fetch"
    /\ last.op = "create_instruction"
    /\ last.args.size_override = 0

=============================================================================
